---- MODULE Spec2Model ----
(***************************************************************************)
(* Synchronization layer of the 61040 backend: the routes of               *)
(* server/routes.ts (and its earlier revision with the Friending routes),  *)
(* the Reacting concept, and the concepts the routes call.                 *)
(*                                                                         *)
(* Every route is an async function: the steps between two awaits run      *)
(* without interruption, and other requests interleave at the awaits.      *)
(* A request in flight lives in a slot of `req`; its `pc` is the await it  *)
(* is suspended at.                                                        *)
(***************************************************************************)
EXTENDS Integers, FiniteSets, Sequences, Bags, TLC

\* ------------------------------------------------------------------ bounds
MaxId == 6                      \* ObjectIds the store hands out: 1..MaxId

Slots == {1, 2}                 \* requests in flight at the same time
Sessions == {"s1", "s2", "s3"}  \* session handles of the clients
Members == {"s1", "s2"}         \* the sessions that are logged in at the start
Visitors == {"s1", "s3"}        \* alice's session and the logged-out session
Usernames == {"alice", "bob", "carol"}
FriendNames == Usernames \cup {"dave"}  \* names in the path of a Friending route
NewPasswords == {"pw1"}         \* passwords of POST /users
Passwords == {"pw1", "pw2"}     \* passwords of POST /login and PATCH /users/password
NewContents == {"c0"}           \* payloads of POST /posts
Contents == {"c1"}              \* payloads of PATCH /posts/:id
ScoreValues == {1}              \* values a client sends to PATCH /score
Ids == 1..MaxId                 \* ids a client can name in a request

\* session.user is undefined: no identity is bound
NoId == 0

VARIABLES
  users,      \* Authing collection: set of [_id, username, password]
  sessions,   \* session handle -> bound identity, or NoId
  posts,      \* Posting collection: set of [_id, author, content]
  comments,   \* Commenting collection: set of [_id, author, parent]
  reactions,  \* Reacting collection: set of [_id, author, type, item]
  scores,     \* Scoring collection: bag of [item, value]
  friends,    \* Friending collection of relationships: bag of [user1, user2]
  frequests,  \* Friending collection of pending requests: bag of [from, to]
  follows,    \* Following collection: set of [follower, followee]
  kinds,      \* kinds[i]: the concept that created the document with _id i
  tasks,      \* items whose un-awaited Scoring.create has not settled yet
  failed,     \* items whose un-awaited Scoring.create was rejected
  req,        \* slot -> the request suspended in it
  last        \* the response the latest step sent to a client, if it sent one

vars == <<users, sessions, posts, comments, reactions, scores, friends,
          frequests, follows, kinds, tasks, failed, req, last>>

\* ---------------------------------------------------------------- storage
\* DocCollection.createOne assigns a fresh ObjectId: ids are never reused,
\* across all collections.
nextId == Len(kinds) + 1

IdleReq == [pc |-> "idle", op |-> "none", user |-> NoId, id |-> NoId,
            content |-> "c0", new |-> NoId, session |-> "none"]

NoResponse == [op |-> "none", res |-> "none"]

Response(op, res, id) == [op |-> op, res |-> res]

\* ------------------------------------------------------------- Sessioning
SessioningGetUser(s) == sessions[s]

SessioningIsLoggedOut(s) == sessions[s] = NoId

\* start: isLoggedOut, then the identity is bound
SessioningStart(s, user) == [sessions EXCEPT ![s] = user]

\* end: the identity is unbound, whether one was bound or not
SessioningEnd(s) == [sessions EXCEPT ![s] = NoId]

\* ---------------------------------------------------------------- Authing
AuthingUsernameTaken(name) == \E u \in users : u.username = name

AuthingCreate(name, password) ==
  users \cup {[_id |-> nextId, username |-> name, password |-> password]}

AuthingExists(user) == \E u \in users : u._id = user

\* authenticate: the identity with this username and password, if there is one
AuthingAuthenticate(name, password) ==
  IF \E u \in users : u.username = name /\ u.password = password
    THEN (CHOOSE u \in users : u.username = name /\ u.password = password)._id
  ELSE NoId

AuthingPasswordIs(user, password) ==
  \E u \in users : u._id = user /\ u.password = password

AuthingUpdateUsername(user, name) ==
  {IF u._id = user THEN [u EXCEPT !.username = name] ELSE u : u \in users}

AuthingUpdatePassword(user, password) ==
  {IF u._id = user THEN [u EXCEPT !.password = password] ELSE u : u \in users}

AuthingDelete(user) == {u \in users : u._id # user}

\* -------------------------------------------------------------- Following
FollowDoc(follower, followee) == [follower |-> follower, followee |-> followee]

FollowingCanFollow(user, followee) ==
  user # followee /\ FollowDoc(user, followee) \notin follows

FollowingFollow(user, followee) == follows \cup {FollowDoc(user, followee)}

FollowingUnfollow(user, followee) == follows \ {FollowDoc(user, followee)}

\* ---------------------------------------------------------------- Posting
PostingRead(id) == {p \in posts : p._id = id}

PostingAssertPostExists(id) ==
  IF PostingRead(id) = {} THEN "NotFound" ELSE "ok"

PostingAssertAuthorIsUser(id, user) ==
  IF PostingRead(id) = {} THEN "NotFound"
  ELSE IF \E p \in PostingRead(id) : p.author # user THEN "NotAuthor"
  ELSE "ok"

PostingCreate(user, content) ==
  posts \cup {[_id |-> nextId, author |-> user, content |-> content]}

PostingUpdate(id, content) ==
  {IF p._id = id THEN [p EXCEPT !.content = content] ELSE p : p \in posts}

PostingDelete(id) == {p \in posts : p._id # id}

\* ------------------------------------------------------------- Commenting
CommentingRead(id) == {c \in comments : c._id = id}

CommentingAssertCommentExists(id) ==
  IF CommentingRead(id) = {} THEN "NotFound" ELSE "ok"

CommentingAssertAuthorIsUser(id, user) ==
  IF CommentingRead(id) = {} THEN "NotFound"
  ELSE IF \E c \in CommentingRead(id) : c.author # user THEN "NotAuthor"
  ELSE "ok"

CommentingCreate(user, parent) ==
  comments \cup {[_id |-> nextId, author |-> user, parent |-> parent]}

CommentingDelete(id) == {c \in comments : c._id # id}

\* --------------------------------------------------------------- Reacting
ReactingRead(id) == {x \in reactions : x._id = id}

\* mutant: createOne is handed the author where the item belongs
ReactingCreate_AuthorAsItem(author, type, item) ==
  reactions \cup {[_id |-> nextId, author |-> author, type |-> type, item |-> author]}

ReactingCreate(author, type, item) ==
  reactions \cup {[_id |-> nextId, author |-> author, type |-> type, item |-> item]}

ReactingDelete(id) == {x \in reactions : x._id # id}

\* mutant: the comparison of reaction.author with user is left out
ReactingAssertAuthorIsUser_NoCompare(id, user) ==
  IF ReactingRead(id) = {} THEN "NotFound" ELSE "ok"

\* the author comparison made on a reaction that may be absent
ReactingAssertAuthorIsUser_NoExistCheck(id, user) ==
  IF \A x \in ReactingRead(id) : x.author # user THEN "NotAuthor"
  ELSE "ok"

ReactingAssertAuthorIsUser(id, user) ==
  IF ReactingRead(id) = {} THEN "NotFound"
  ELSE IF \E x \in ReactingRead(id) : x.author # user THEN "NotAuthor"
  ELSE "ok"

\* ---------------------------------------------------------------- Scoring
ScoreDoc(item, value) == [item |-> item, value |-> value]

ScoresOf(item) == {d \in BagToSet(scores) : d.item = item}

ScoringCreate(item) == scores (+) SetToBag({ScoreDoc(item, 0)})

\* updateOne: the first matching document is patched, none is inserted
ScoringUpdate(item, value) ==
  IF ScoresOf(item) = {} THEN scores
  ELSE LET d == CHOOSE d \in ScoresOf(item) : TRUE
       IN (scores (-) SetToBag({d})) (+) SetToBag({ScoreDoc(item, value)})

\* ----------------------------------------------------------------- routes
Finish(r, op, res, id) ==
  /\ req' = [req EXCEPT ![r] = IdleReq]
  /\ last' = Response(op, res, id)

Suspend(r, op, pc, user, id, content, new) ==
  /\ req' = [req EXCEPT ![r] = [pc |-> pc, op |-> op, user |-> user, id |-> id,
                                content |-> content, new |-> new, session |-> "none"]]
  /\ last' = NoResponse

At(r, op, pc) == req[r].op = op /\ req[r].pc = pc

\* A new request takes the first free slot (the slots are interchangeable).
Free(r) == req[r].pc = "idle" /\ \A q \in Slots : q < r => req[q].pc # "idle"

contentVars == <<posts, comments, reactions>>
friendVars == <<friends, frequests, follows>>
scoreVars == <<scores, tasks, failed>>

\* the route without Sessioning.isLoggedOut(session)
createUser_NoGuard(r, s, name, password) ==
  /\ Free(r)
  /\ IF AuthingUsernameTaken(name)
       THEN Finish(r, "createUser", "DuplicateUsername", NoId) /\ UNCHANGED <<users, kinds>>
     ELSE /\ nextId <= MaxId
          /\ users' = AuthingCreate(name, password)
          /\ kinds' = Append(kinds, "user")
          /\ Suspend(r, "createUser", "fanout", NoId, NoId, "c0", nextId)
  /\ UNCHANGED <<sessions, contentVars, scoreVars, friendVars>>

\* POST /users
createUser(r, s, name, password) ==
  /\ Free(r)
  /\ IF ~SessioningIsLoggedOut(s)
       THEN Finish(r, "createUser", "NotAllowed", NoId) /\ UNCHANGED <<users, kinds>>
     ELSE IF AuthingUsernameTaken(name)
       THEN Finish(r, "createUser", "DuplicateUsername", NoId) /\ UNCHANGED <<users, kinds>>
     ELSE /\ nextId <= MaxId
          /\ users' = AuthingCreate(name, password)
          /\ kinds' = Append(kinds, "user")
          /\ Suspend(r, "createUser", "fanout", NoId, NoId, "c0", nextId)
  /\ UNCHANGED <<sessions, contentVars, scoreVars, friendVars>>

\* if (created.user) Scoring.create(created.user._id); return created;
createUserFanout(r) ==
  /\ At(r, "createUser", "fanout")
  /\ tasks' = tasks \cup {req[r].new}
  /\ Finish(r, "createUser", "ok", req[r].new)
  /\ UNCHANGED <<users, sessions, contentVars, scores, failed, friendVars, kinds>>

\* the route storing the post under whatever identity the session holds
createPost_NoGetUser(r, s, content) ==
  /\ Free(r)
  /\ nextId <= MaxId
  /\ posts' = PostingCreate(sessions[s], content)
  /\ kinds' = Append(kinds, "post")
  /\ Suspend(r, "createPost", "fanout", sessions[s], NoId, "c0", nextId)
  /\ UNCHANGED <<users, sessions, comments, reactions, scoreVars, friendVars>>

\* POST /posts
createPost(r, s, content) ==
  /\ Free(r)
  /\ IF SessioningGetUser(s) = NoId
       THEN Finish(r, "createPost", "Unauthenticated", NoId) /\ UNCHANGED <<posts, kinds>>
     ELSE /\ nextId <= MaxId
          /\ posts' = PostingCreate(SessioningGetUser(s), content)
          /\ kinds' = Append(kinds, "post")
          /\ Suspend(r, "createPost", "fanout", SessioningGetUser(s), NoId, "c0", nextId)
  /\ UNCHANGED <<users, sessions, comments, reactions, scoreVars, friendVars>>

\* the route without its Scoring.create line
createPostFanout_NoScore(r) ==
  /\ At(r, "createPost", "fanout")
  /\ req' = [req EXCEPT ![r].pc = "respond"]
  /\ last' = NoResponse
  /\ UNCHANGED <<users, sessions, contentVars, scoreVars, friendVars, kinds>>

\* if (created.post) Scoring.create(created.post._id);
createPostFanout(r) ==
  /\ At(r, "createPost", "fanout")
  /\ tasks' = tasks \cup {req[r].new}
  /\ req' = [req EXCEPT ![r].pc = "respond"]
  /\ last' = NoResponse
  /\ UNCHANGED <<users, sessions, contentVars, scores, failed, friendVars, kinds>>

\* the route awaiting Scoring.create: a rejected score write reaches the caller
createPostRespond_Awaited(r) ==
  /\ At(r, "createPost", "respond")
  /\ req[r].new \notin tasks
  /\ Finish(r, "createPost", IF req[r].new \in failed THEN "ScoreFailed" ELSE "ok", req[r].new)
  /\ UNCHANGED <<users, sessions, contentVars, scoreVars, friendVars, kinds>>

\* return { msg: created.msg, post: await Responses.post(created.post) };
createPostRespond(r) ==
  /\ At(r, "createPost", "respond")
  /\ Finish(r, "createPost", "ok", req[r].new)
  /\ UNCHANGED <<users, sessions, contentVars, scoreVars, friendVars, kinds>>

\* POST /comments: try { await Posting.assertPostExists(parentOid) }
createComment(r, s, parent) ==
  /\ Free(r)
  /\ IF SessioningGetUser(s) = NoId
       THEN Finish(r, "createComment", "Unauthenticated", NoId)
     ELSE IF PostingAssertPostExists(parent) = "ok"
       THEN Suspend(r, "createComment", "create", SessioningGetUser(s), parent, "c0", NoId)
     ELSE Suspend(r, "createComment", "probe", SessioningGetUser(s), parent, "c0", NoId)
  /\ UNCHANGED <<users, sessions, contentVars, scoreVars, friendVars, kinds>>

\* mutant: the catch block swallows the failure of the second probe too
createCommentProbe_Swallow(r) ==
  /\ At(r, "createComment", "probe")
  /\ req' = [req EXCEPT ![r].pc = "create"] /\ last' = NoResponse
  /\ UNCHANGED <<users, sessions, contentVars, scoreVars, friendVars, kinds>>

\* catch { await Commenting.assertCommentExists(parentOid) }
createCommentProbe(r) ==
  /\ At(r, "createComment", "probe")
  /\ IF CommentingAssertCommentExists(req[r].id) = "ok"
       THEN req' = [req EXCEPT ![r].pc = "create"] /\ last' = NoResponse
     ELSE Finish(r, "createComment", "NotFound", req[r].id)
  /\ UNCHANGED <<users, sessions, contentVars, scoreVars, friendVars, kinds>>

\* const created = await Commenting.create(user, content, parentOid);
createCommentCreate(r) ==
  /\ At(r, "createComment", "create")
  /\ nextId <= MaxId
  /\ comments' = CommentingCreate(req[r].user, req[r].id)
  /\ kinds' = Append(kinds, "comment")
  /\ req' = [req EXCEPT ![r].pc = "fanout", ![r].new = nextId]
  /\ last' = NoResponse
  /\ UNCHANGED <<users, sessions, posts, reactions, scoreVars, friendVars>>

\* if (created.comment) Scoring.create(created.comment._id);
createCommentFanout(r) ==
  /\ At(r, "createComment", "fanout")
  /\ tasks' = tasks \cup {req[r].new}
  /\ req' = [req EXCEPT ![r].pc = "respond"]
  /\ last' = NoResponse
  /\ UNCHANGED <<users, sessions, contentVars, scores, failed, friendVars, kinds>>

\* return { msg: created.msg, comment: await Responses.comment(created.comment) };
createCommentRespond(r) ==
  /\ At(r, "createComment", "respond")
  /\ Finish(r, "createComment", "ok", req[r].new)
  /\ UNCHANGED <<users, sessions, contentVars, scoreVars, friendVars, kinds>>

\* POST /reactions: try { await Posting.assertPostExists(itemOid) }
createReaction(r, s, item) ==
  /\ Free(r)
  /\ IF SessioningGetUser(s) = NoId
       THEN Finish(r, "createReaction", "Unauthenticated", NoId)
     ELSE IF PostingAssertPostExists(item) = "ok"
       THEN Suspend(r, "createReaction", "create", SessioningGetUser(s), item, "c0", NoId)
     ELSE Suspend(r, "createReaction", "probe", SessioningGetUser(s), item, "c0", NoId)
  /\ UNCHANGED <<users, sessions, contentVars, scoreVars, friendVars, kinds>>

\* the second probe's failure swallowed as the first one's is
createReactionProbe_Swallow(r) ==
  /\ At(r, "createReaction", "probe")
  /\ req' = [req EXCEPT ![r].pc = "create"] /\ last' = NoResponse
  /\ UNCHANGED <<users, sessions, contentVars, scoreVars, friendVars, kinds>>

\* catch { await Commenting.assertCommentExists(itemOid) }
createReactionProbe(r) ==
  /\ At(r, "createReaction", "probe")
  /\ IF CommentingAssertCommentExists(req[r].id) = "ok"
       THEN req' = [req EXCEPT ![r].pc = "create"] /\ last' = NoResponse
     ELSE Finish(r, "createReaction", "NotFound", req[r].id)
  /\ UNCHANGED <<users, sessions, contentVars, scoreVars, friendVars, kinds>>

\* the route fanning a new reaction out to Scoring as the other creations do
createReactionCreate_Scored(r) ==
  /\ At(r, "createReaction", "create")
  /\ nextId <= MaxId
  /\ reactions' = ReactingCreate(req[r].user, "like", req[r].id)
  /\ kinds' = Append(kinds, "reaction")
  /\ tasks' = tasks \cup {nextId}
  /\ Finish(r, "createReaction", "ok", nextId)
  /\ UNCHANGED <<users, sessions, posts, comments, scores, failed, friendVars>>

\* const created = await Reacting.create(user, type, itemOid); return {...}
createReactionCreate(r) ==
  /\ At(r, "createReaction", "create")
  /\ nextId <= MaxId
  /\ reactions' = ReactingCreate(req[r].user, "like", req[r].id)
  /\ kinds' = Append(kinds, "reaction")
  /\ Finish(r, "createReaction", "ok", nextId)
  /\ UNCHANGED <<users, sessions, posts, comments, scoreVars, friendVars>>

\* PATCH /posts/:id: await Posting.assertAuthorIsUser(oid, user)
updatePost(r, s, id, content) ==
  /\ Free(r)
  /\ IF SessioningGetUser(s) = NoId
       THEN Finish(r, "updatePost", "Unauthenticated", id)
     ELSE IF PostingAssertAuthorIsUser(id, SessioningGetUser(s)) = "ok"
       THEN Suspend(r, "updatePost", "mutate", SessioningGetUser(s), id, content, NoId)
     ELSE Finish(r, "updatePost", PostingAssertAuthorIsUser(id, SessioningGetUser(s)), id)
  /\ UNCHANGED <<users, sessions, contentVars, scoreVars, friendVars, kinds>>

\* the update writing the post back when it is gone
updatePostUpdate_Upsert(r) ==
  /\ At(r, "updatePost", "mutate")
  /\ posts' = IF PostingRead(req[r].id) = {}
                THEN posts \cup {[_id |-> req[r].id, author |-> req[r].user,
                                  content |-> req[r].content]}
              ELSE PostingUpdate(req[r].id, req[r].content)
  /\ Finish(r, "updatePost", "ok", req[r].id)
  /\ UNCHANGED <<users, sessions, comments, reactions, scoreVars, friendVars, kinds>>

\* return await Posting.update(oid, content, options);
updatePostUpdate(r) ==
  /\ At(r, "updatePost", "mutate")
  /\ posts' = PostingUpdate(req[r].id, req[r].content)
  /\ Finish(r, "updatePost", "ok", req[r].id)
  /\ UNCHANGED <<users, sessions, comments, reactions, scoreVars, friendVars, kinds>>

\* the route going on to delete without the author assertion
deletePost_NoAssert(r, s, id) ==
  /\ Free(r)
  /\ IF SessioningGetUser(s) = NoId
       THEN Finish(r, "deletePost", "Unauthenticated", id)
     ELSE Suspend(r, "deletePost", "mutate", SessioningGetUser(s), id, "c0", NoId)
  /\ UNCHANGED <<users, sessions, contentVars, scoreVars, friendVars, kinds>>

\* DELETE /posts/:id: await Posting.assertAuthorIsUser(oid, user)
deletePost(r, s, id) ==
  /\ Free(r)
  /\ IF SessioningGetUser(s) = NoId
       THEN Finish(r, "deletePost", "Unauthenticated", id)
     ELSE IF PostingAssertAuthorIsUser(id, SessioningGetUser(s)) = "ok"
       THEN Suspend(r, "deletePost", "mutate", SessioningGetUser(s), id, "c0", NoId)
     ELSE Finish(r, "deletePost", PostingAssertAuthorIsUser(id, SessioningGetUser(s)), id)
  /\ UNCHANGED <<users, sessions, contentVars, scoreVars, friendVars, kinds>>

\* the route deleting what hangs on the post along with it
deletePostDelete_Cascade(r) ==
  /\ At(r, "deletePost", "mutate")
  /\ posts' = PostingDelete(req[r].id)
  /\ comments' = {c \in comments : c.parent # req[r].id}
  /\ reactions' = {x \in reactions : x.item # req[r].id}
  /\ Finish(r, "deletePost", "ok", req[r].id)
  /\ UNCHANGED <<users, sessions, scoreVars, friendVars, kinds>>

\* return Posting.delete(oid);
deletePostDelete(r) ==
  /\ At(r, "deletePost", "mutate")
  /\ posts' = PostingDelete(req[r].id)
  /\ Finish(r, "deletePost", "ok", req[r].id)
  /\ UNCHANGED <<users, sessions, comments, reactions, scoreVars, friendVars, kinds>>

\* DELETE /comments/:id: await Commenting.assertAuthorIsUser(oid, user)
deleteComment(r, s, id) ==
  /\ Free(r)
  /\ IF SessioningGetUser(s) = NoId
       THEN Finish(r, "deleteComment", "Unauthenticated", id)
     ELSE IF CommentingAssertAuthorIsUser(id, SessioningGetUser(s)) = "ok"
       THEN Suspend(r, "deleteComment", "mutate", SessioningGetUser(s), id, "c0", NoId)
     ELSE Finish(r, "deleteComment", CommentingAssertAuthorIsUser(id, SessioningGetUser(s)), id)
  /\ UNCHANGED <<users, sessions, contentVars, scoreVars, friendVars, kinds>>

\* return Commenting.delete(oid);
deleteCommentDelete(r) ==
  /\ At(r, "deleteComment", "mutate")
  /\ comments' = CommentingDelete(req[r].id)
  /\ Finish(r, "deleteComment", "ok", req[r].id)
  /\ UNCHANGED <<users, sessions, posts, reactions, scoreVars, friendVars, kinds>>

\* DELETE /reactions/:id: await Reacting.assertAuthorIsUser(oid, user)
deleteReaction(r, s, id) ==
  /\ Free(r)
  /\ IF SessioningGetUser(s) = NoId
       THEN Finish(r, "deleteReaction", "Unauthenticated", id)
     ELSE IF ReactingAssertAuthorIsUser(id, SessioningGetUser(s)) = "ok"
       THEN Suspend(r, "deleteReaction", "mutate", SessioningGetUser(s), id, "c0", NoId)
     ELSE Finish(r, "deleteReaction", ReactingAssertAuthorIsUser(id, SessioningGetUser(s)), id)
  /\ UNCHANGED <<users, sessions, contentVars, scoreVars, friendVars, kinds>>

\* return Reacting.delete(oid);
deleteReactionDelete(r) ==
  /\ At(r, "deleteReaction", "mutate")
  /\ reactions' = ReactingDelete(req[r].id)
  /\ Finish(r, "deleteReaction", "ok", req[r].id)
  /\ UNCHANGED <<users, sessions, posts, comments, scoreVars, friendVars, kinds>>

\* PATCH /score: return await Scoring.update(itemOid, score);
updateScoreByItem(item, value) ==
  /\ scores' = ScoringUpdate(item, value)
  /\ last' = Response("updateScoreByItem", "ok", item)
  /\ UNCHANGED <<users, sessions, contentVars, tasks, failed, friendVars, kinds, req>>

\* the promise of an un-awaited Scoring.create(item) is fulfilled
ScoringCreateSettle(item) ==
  /\ item \in tasks
  /\ scores' = ScoringCreate(item)
  /\ tasks' = tasks \ {item}
  /\ last' = NoResponse
  /\ UNCHANGED <<users, sessions, contentVars, failed, friendVars, kinds, req>>

\* the promise of an un-awaited Scoring.create(item) is rejected: nobody
\* awaits it, so the rejection reaches no request
ScoringCreateReject(item) ==
  /\ item \in tasks
  /\ tasks' = tasks \ {item}
  /\ failed' = failed \cup {item}
  /\ last' = NoResponse
  /\ UNCHANGED <<users, sessions, contentVars, scores, friendVars, kinds, req>>

\* -------------------------------------------------------------- Friending
AuthingGetUserByUsername(name) ==
  IF AuthingUsernameTaken(name)
    THEN (CHOOSE u \in users : u.username = name)._id
  ELSE NoId

RequestDoc(from, to) == [from |-> from, to |-> to]

FriendDoc(u1, u2) == [user1 |-> u1, user2 |-> u2]

Pending(from, to) == CopiesIn(RequestDoc(from, to), frequests)

\* the relationship documents of the unordered pair {a, b}
Friendships(a, b) == CopiesIn(FriendDoc(a, b), friends)
                     + (IF a = b THEN 0 ELSE CopiesIn(FriendDoc(b, a), friends))

FriendingCanSendRequest(from, to) ==
  /\ Pending(from, to) = 0
  /\ from # to
  /\ Friendships(from, to) = 0

FriendingSendRequest(from, to) == frequests (+) SetToBag({RequestDoc(from, to)})

FriendingRemovePending(from, to) == frequests (-) SetToBag({RequestDoc(from, to)})

FriendingAddFriend(from, to) == friends (+) SetToBag({FriendDoc(from, to)})

\* the documents removeFriend can delete for the pair
FriendingMatches(user, friend) ==
  {d \in BagToSet(friends) : d = FriendDoc(user, friend) \/ d = FriendDoc(friend, user)}

\* The Friending routes: one Friending call behind two reads (the session and
\* the user named in the path), so a request is one step.
Reply(op, res) ==
  /\ last' = Response(op, res, NoId)
  /\ UNCHANGED <<users, sessions, contentVars, scoreVars, follows, kinds, req>>

\* POST /friend/requests/:to
sendFriendRequest(s, to) ==
  LET user == SessioningGetUser(s)
      toOid == AuthingGetUserByUsername(to)
  IN IF user = NoId THEN Reply("sendFriendRequest", "Unauthenticated") /\ UNCHANGED friendVars
     ELSE IF toOid = NoId THEN Reply("sendFriendRequest", "NotFound") /\ UNCHANGED friendVars
     ELSE IF ~FriendingCanSendRequest(user, toOid)
       THEN Reply("sendFriendRequest", "InvalidState") /\ UNCHANGED friendVars
     ELSE /\ frequests' = FriendingSendRequest(user, toOid)
          /\ Reply("sendFriendRequest", "ok")
          /\ UNCHANGED <<friends, follows>>

\* the withdraw route handing the pair to Friending the other way round
removeFriendRequest_Swapped(s, to) ==
  LET user == SessioningGetUser(s)
      toOid == AuthingGetUserByUsername(to)
  IN IF user = NoId THEN Reply("removeFriendRequest", "Unauthenticated") /\ UNCHANGED friendVars
     ELSE IF toOid = NoId THEN Reply("removeFriendRequest", "NotFound") /\ UNCHANGED friendVars
     ELSE IF Pending(toOid, user) = 0
       THEN Reply("removeFriendRequest", "InvalidState") /\ UNCHANGED friendVars
     ELSE /\ frequests' = FriendingRemovePending(toOid, user)
          /\ Reply("removeFriendRequest", "ok")
          /\ UNCHANGED <<friends, follows>>

\* DELETE /friend/requests/:to
removeFriendRequest(s, to) ==
  LET user == SessioningGetUser(s)
      toOid == AuthingGetUserByUsername(to)
  IN IF user = NoId THEN Reply("removeFriendRequest", "Unauthenticated") /\ UNCHANGED friendVars
     ELSE IF toOid = NoId THEN Reply("removeFriendRequest", "NotFound") /\ UNCHANGED friendVars
     ELSE IF Pending(user, toOid) = 0
       THEN Reply("removeFriendRequest", "InvalidState") /\ UNCHANGED friendVars
     ELSE /\ frequests' = FriendingRemovePending(user, toOid)
          /\ Reply("removeFriendRequest", "ok")
          /\ UNCHANGED <<friends, follows>>

\* the accept route handing the pair to Friending the other way round
acceptFriendRequest_Swapped(s, from) ==
  LET user == SessioningGetUser(s)
      fromOid == AuthingGetUserByUsername(from)
  IN IF user = NoId THEN Reply("acceptFriendRequest", "Unauthenticated") /\ UNCHANGED friendVars
     ELSE IF fromOid = NoId THEN Reply("acceptFriendRequest", "NotFound") /\ UNCHANGED friendVars
     ELSE IF Pending(user, fromOid) = 0
       THEN Reply("acceptFriendRequest", "InvalidState") /\ UNCHANGED friendVars
     ELSE /\ frequests' = FriendingRemovePending(user, fromOid)
          /\ friends' = FriendingAddFriend(user, fromOid)
          /\ Reply("acceptFriendRequest", "ok")

\* PUT /friend/accept/:from
acceptFriendRequest(s, from) ==
  LET user == SessioningGetUser(s)
      fromOid == AuthingGetUserByUsername(from)
  IN IF user = NoId THEN Reply("acceptFriendRequest", "Unauthenticated") /\ UNCHANGED friendVars
     ELSE IF fromOid = NoId THEN Reply("acceptFriendRequest", "NotFound") /\ UNCHANGED friendVars
     ELSE IF Pending(fromOid, user) = 0
       THEN Reply("acceptFriendRequest", "InvalidState") /\ UNCHANGED friendVars
     ELSE /\ frequests' = FriendingRemovePending(fromOid, user)
          /\ friends' = FriendingAddFriend(fromOid, user)
          /\ Reply("acceptFriendRequest", "ok")

\* the reject route handing the pair to Friending the other way round
rejectFriendRequest_Swapped(s, from) ==
  LET user == SessioningGetUser(s)
      fromOid == AuthingGetUserByUsername(from)
  IN IF user = NoId THEN Reply("rejectFriendRequest", "Unauthenticated") /\ UNCHANGED friendVars
     ELSE IF fromOid = NoId THEN Reply("rejectFriendRequest", "NotFound") /\ UNCHANGED friendVars
     ELSE IF Pending(user, fromOid) = 0
       THEN Reply("rejectFriendRequest", "InvalidState") /\ UNCHANGED friendVars
     ELSE /\ frequests' = FriendingRemovePending(user, fromOid)
          /\ Reply("rejectFriendRequest", "ok")
          /\ UNCHANGED <<friends, follows>>

\* PUT /friend/reject/:from
rejectFriendRequest(s, from) ==
  LET user == SessioningGetUser(s)
      fromOid == AuthingGetUserByUsername(from)
  IN IF user = NoId THEN Reply("rejectFriendRequest", "Unauthenticated") /\ UNCHANGED friendVars
     ELSE IF fromOid = NoId THEN Reply("rejectFriendRequest", "NotFound") /\ UNCHANGED friendVars
     ELSE IF Pending(fromOid, user) = 0
       THEN Reply("rejectFriendRequest", "InvalidState") /\ UNCHANGED friendVars
     ELSE /\ frequests' = FriendingRemovePending(fromOid, user)
          /\ Reply("rejectFriendRequest", "ok")
          /\ UNCHANGED <<friends, follows>>

\* DELETE /friends/:friend
removeFriend(s, friend) ==
  LET user == SessioningGetUser(s)
      friendOid == AuthingGetUserByUsername(friend)
  IN IF user = NoId THEN Reply("removeFriend", "Unauthenticated") /\ UNCHANGED friendVars
     ELSE IF friendOid = NoId THEN Reply("removeFriend", "NotFound") /\ UNCHANGED friendVars
     ELSE IF FriendingMatches(user, friendOid) = {}
       THEN Reply("removeFriend", "InvalidState") /\ UNCHANGED friendVars
     ELSE /\ \E d \in FriendingMatches(user, friendOid) :
               friends' = friends (-) SetToBag({d})
          /\ Reply("removeFriend", "ok")
          /\ UNCHANGED <<frequests, follows>>

\* -------------------------------------------- accounts, sessions, follows
\* a route that answers in the step that starts it
Answer(op, res) ==
  /\ last' = Response(op, res, NoId)
  /\ UNCHANGED <<contentVars, scoreVars, friends, frequests, kinds, req>>

\* GET /session
getSessionUser(s) ==
  /\ IF SessioningGetUser(s) = NoId THEN Answer("getSessionUser", "Unauthenticated")
     ELSE IF ~AuthingExists(SessioningGetUser(s)) THEN Answer("getSessionUser", "NotFound")
     ELSE Answer("getSessionUser", "ok")
  /\ UNCHANGED <<users, sessions, follows>>

\* the rename without the uniqueness check
updateUsername_NoCheck(s, name) ==
  LET user == SessioningGetUser(s)
  IN /\ IF user = NoId
          THEN Answer("updateUsername", "Unauthenticated") /\ UNCHANGED users
        ELSE /\ users' = AuthingUpdateUsername(user, name)
             /\ Answer("updateUsername", "ok")
     /\ UNCHANGED <<sessions, follows>>

\* PATCH /users/username
updateUsername(s, name) ==
  LET user == SessioningGetUser(s)
  IN /\ IF user = NoId
          THEN Answer("updateUsername", "Unauthenticated") /\ UNCHANGED users
        ELSE IF AuthingUsernameTaken(name)
          THEN Answer("updateUsername", "DuplicateUsername") /\ UNCHANGED users
        ELSE /\ users' = AuthingUpdateUsername(user, name)
             /\ Answer("updateUsername", "ok")
     /\ UNCHANGED <<sessions, follows>>

\* PATCH /users/password
updatePassword(s, currentPassword, newPassword) ==
  LET user == SessioningGetUser(s)
  IN /\ IF user = NoId
          THEN Answer("updatePassword", "Unauthenticated") /\ UNCHANGED users
        ELSE IF ~AuthingExists(user)
          THEN Answer("updatePassword", "NotFound") /\ UNCHANGED users
        ELSE IF ~AuthingPasswordIs(user, currentPassword)
          THEN Answer("updatePassword", "InvalidCredentials") /\ UNCHANGED users
        ELSE /\ users' = AuthingUpdatePassword(user, newPassword)
             /\ Answer("updatePassword", "ok")
     /\ UNCHANGED <<sessions, follows>>

\* DELETE /users: Sessioning.getUser(session); Sessioning.end(session);
deleteUser(r, s) ==
  /\ Free(r)
  /\ IF SessioningGetUser(s) = NoId
       THEN Finish(r, "deleteUser", "Unauthenticated", NoId) /\ UNCHANGED sessions
     ELSE /\ sessions' = SessioningEnd(s)
          /\ req' = [req EXCEPT ![r] = [IdleReq EXCEPT !.pc = "delete", !.op = "deleteUser",
                                                       !.user = SessioningGetUser(s),
                                                       !.session = s]]
          /\ last' = NoResponse
  /\ UNCHANGED <<users, contentVars, scoreVars, friendVars, kinds>>

\* return await Authing.delete(user);
deleteUserDelete(r) ==
  /\ At(r, "deleteUser", "delete")
  /\ users' = AuthingDelete(req[r].user)
  /\ Finish(r, "deleteUser", "ok", NoId)
  /\ UNCHANGED <<sessions, contentVars, scoreVars, friendVars, kinds>>

\* POST /login: const u = await Authing.authenticate(username, password);
logIn(r, s, name, password) ==
  /\ Free(r)
  /\ IF AuthingAuthenticate(name, password) = NoId
       THEN Finish(r, "logIn", "InvalidCredentials", NoId)
     ELSE /\ req' = [req EXCEPT ![r] = [IdleReq EXCEPT !.pc = "start", !.op = "logIn",
                                                       !.user = AuthingAuthenticate(name, password),
                                                       !.session = s]]
          /\ last' = NoResponse
  /\ UNCHANGED <<users, sessions, contentVars, scoreVars, friendVars, kinds>>

\* the route binding the session without start's isLoggedOut
logInStart_Rebind(r) ==
  /\ At(r, "logIn", "start")
  /\ sessions' = SessioningStart(req[r].session, req[r].user)
  /\ Finish(r, "logIn", "ok", NoId)
  /\ UNCHANGED <<users, contentVars, scoreVars, friendVars, kinds>>

\* Sessioning.start(session, u._id); return { msg: "Logged in!" };
logInStart(r) ==
  /\ At(r, "logIn", "start")
  /\ IF ~SessioningIsLoggedOut(req[r].session)
       THEN Finish(r, "logIn", "NotAllowed", NoId) /\ UNCHANGED sessions
     ELSE /\ sessions' = SessioningStart(req[r].session, req[r].user)
          /\ Finish(r, "logIn", "ok", NoId)
  /\ UNCHANGED <<users, contentVars, scoreVars, friendVars, kinds>>

\* the route refusing to log out a session that is logged out
logOut_AssertLoggedIn(s) ==
  /\ IF SessioningIsLoggedOut(s)
       THEN Answer("logOut", "NotAllowed") /\ UNCHANGED sessions
     ELSE sessions' = SessioningEnd(s) /\ Answer("logOut", "ok")
  /\ UNCHANGED <<users, follows>>

\* POST /logout
logOut(s) ==
  /\ sessions' = SessioningEnd(s)
  /\ Answer("logOut", "ok")
  /\ UNCHANGED <<users, follows>>

\* POST /follow
follow(s, name) ==
  LET user == SessioningGetUser(s)
      followeeOid == AuthingGetUserByUsername(name)
  IN /\ IF user = NoId THEN Answer("follow", "Unauthenticated") /\ UNCHANGED follows
        ELSE IF followeeOid = NoId THEN Answer("follow", "NotFound") /\ UNCHANGED follows
        ELSE IF ~FollowingCanFollow(user, followeeOid)
          THEN Answer("follow", "NotAllowed") /\ UNCHANGED follows
        ELSE /\ follows' = FollowingFollow(user, followeeOid)
             /\ Answer("follow", "ok")
     /\ UNCHANGED <<users, sessions>>

\* DELETE /follow
unfollow(s, name) ==
  LET user == SessioningGetUser(s)
      followeeOid == AuthingGetUserByUsername(name)
  IN /\ IF user = NoId THEN Answer("unfollow", "Unauthenticated") /\ UNCHANGED follows
        ELSE IF followeeOid = NoId THEN Answer("unfollow", "NotFound") /\ UNCHANGED follows
        ELSE IF FollowDoc(user, followeeOid) \notin follows
          THEN Answer("unfollow", "NotFound") /\ UNCHANGED follows
        ELSE /\ follows' = FollowingUnfollow(user, followeeOid)
             /\ Answer("unfollow", "ok")
     /\ UNCHANGED <<users, sessions>>

\* ------------------------------------------------------------ the system
\* The database outlives the server: alice (1) and bob (2) are registered and
\* logged in on s1 and s2, s3 is logged out; alice has posted 3, bob has
\* commented 4 on it and reacted 5 to it. These were created by the earlier
\* revision of the routes, which did not create score records yet.
Init ==
  /\ users = {[_id |-> 1, username |-> "alice", password |-> "pw1"],
              [_id |-> 2, username |-> "bob", password |-> "pw1"]}
  /\ sessions = [s \in Sessions |-> IF s = "s1" THEN 1 ELSE IF s = "s2" THEN 2 ELSE NoId]
  /\ kinds = <<"user", "user", "post", "comment", "reaction">>
  /\ posts = {[_id |-> 3, author |-> 1, content |-> "c0"]}
  /\ comments = {[_id |-> 4, author |-> 2, parent |-> 3]}
  /\ reactions = {[_id |-> 5, author |-> 2, type |-> "like", item |-> 3]}
  /\ scores = EmptyBag
  /\ friends = EmptyBag /\ frequests = EmptyBag /\ follows = {}
  /\ tasks = {} /\ failed = {}
  /\ req = [r \in Slots |-> IdleReq]
  /\ last = NoResponse

\* Update and delete of the stored author-owned content.
NextAuthz ==
  \/ \E r \in Slots, s \in Sessions, id \in Ids, c \in Contents : updatePost(r, s, id, c)
  \/ \E r \in Slots : updatePostUpdate(r)
  \/ \E r \in Slots, s \in Sessions, id \in Ids : deletePost(r, s, id)
  \/ \E r \in Slots : deletePostDelete(r)
  \/ \E r \in Slots, s \in Sessions, id \in Ids : deleteComment(r, s, id)
  \/ \E r \in Slots : deleteCommentDelete(r)
  \/ \E r \in Slots, s \in Sessions, id \in Ids : deleteReaction(r, s, id)
  \/ \E r \in Slots : deleteReactionDelete(r)

SpecAuthz == Init /\ [][NextAuthz]_vars

\* Comments and reactions being attached while posts are deleted.
NextParent ==
  \/ \E r \in Slots, s \in Members, id \in Ids : createComment(r, s, id)
  \/ \E r \in Slots : createCommentProbe(r)
  \/ \E r \in Slots : createCommentCreate(r)
  \/ \E r \in Slots : createCommentFanout(r)
  \/ \E r \in Slots : createCommentRespond(r)
  \/ \E r \in Slots, s \in Members, id \in Ids : createReaction(r, s, id)
  \/ \E r \in Slots : createReactionProbe(r)
  \/ \E r \in Slots : createReactionCreate(r)
  \/ \E r \in Slots, s \in Members, id \in Ids : deletePost(r, s, id)
  \/ \E r \in Slots : deletePostDelete(r)

SpecParent == Init /\ [][NextParent]_vars

\* Creating a child while its parent, a post or a comment, is being deleted.
NextOrphan ==
  \/ NextParent
  \/ \E r \in Slots, s \in Members, id \in Ids : deleteComment(r, s, id)
  \/ \E r \in Slots : deleteCommentDelete(r)

SpecOrphan == Init /\ [][NextOrphan]_vars

\* The creations that fan out to Scoring, and the un-awaited score writes.
NextFanout ==
  \/ \E r \in Slots, s \in Sessions, name \in Usernames, pw \in NewPasswords :
       createUser(r, s, name, pw)
  \/ \E r \in Slots : createUserFanout(r)
  \/ \E r \in Slots, s \in Sessions, c \in NewContents : createPost(r, s, c)
  \/ \E r \in Slots : createPostFanout(r)
  \/ \E r \in Slots : createPostRespond(r)
  \/ \E r \in Slots, s \in Sessions, id \in Ids : createComment(r, s, id)
  \/ \E r \in Slots : createCommentProbe(r)
  \/ \E r \in Slots : createCommentCreate(r)
  \/ \E r \in Slots : createCommentFanout(r)
  \/ \E r \in Slots : createCommentRespond(r)
  \/ \E item \in Ids : ScoringCreateSettle(item)
  \/ \E item \in Ids : ScoringCreateReject(item)

SpecFanout == Init /\ [][NextFanout]_vars

\* The event loop runs the continuation of a resolved await, and the promise
\* of a score write settles, one way or the other.
LiveFanout ==
  /\ SpecFanout
  /\ \A r \in Slots :
       /\ WF_vars(createUserFanout(r))
       /\ WF_vars(createPostFanout(r))
       /\ WF_vars(createPostRespond(r))
       /\ WF_vars(createCommentProbe(r))
       /\ WF_vars(createCommentCreate(r))
       /\ WF_vars(createCommentFanout(r))
       /\ WF_vars(createCommentRespond(r))
  /\ \A item \in Ids : WF_vars(ScoringCreateSettle(item) \/ ScoringCreateReject(item))

\* Every route that creates a document or touches Scoring, one request at a
\* time; the un-awaited score writes run beside it.
NextScore ==
  \/ \E s \in Sessions, name \in Usernames, pw \in NewPasswords : createUser(1, s, name, pw)
  \/ createUserFanout(1)
  \/ \E s \in Sessions, c \in NewContents : createPost(1, s, c)
  \/ createPostFanout(1)
  \/ createPostRespond(1)
  \/ \E s \in Sessions, id \in Ids : createComment(1, s, id)
  \/ createCommentProbe(1)
  \/ createCommentCreate(1)
  \/ createCommentFanout(1)
  \/ createCommentRespond(1)
  \/ \E s \in Sessions, id \in Ids : createReaction(1, s, id)
  \/ createReactionProbe(1)
  \/ createReactionCreate(1)
  \/ \E item \in Ids, v \in ScoreValues : updateScoreByItem(item, v)
  \/ \E item \in Ids : ScoringCreateSettle(item)
  \/ \E item \in Ids : ScoringCreateReject(item)

SpecScore == Init /\ [][NextScore]_vars

\* alice (1), bob (2) and carol (6) are registered and logged in on s1, s2, s3
InitFriend ==
  /\ users = {[_id |-> 1, username |-> "alice", password |-> "pw1"],
              [_id |-> 2, username |-> "bob", password |-> "pw1"],
              [_id |-> 6, username |-> "carol", password |-> "pw1"]}
  /\ sessions = [s \in Sessions |-> IF s = "s1" THEN 1 ELSE IF s = "s2" THEN 2 ELSE 6]
  /\ kinds = <<"user", "user", "post", "comment", "reaction", "user">>
  /\ posts = {[_id |-> 3, author |-> 1, content |-> "c0"]}
  /\ comments = {[_id |-> 4, author |-> 2, parent |-> 3]}
  /\ reactions = {[_id |-> 5, author |-> 2, type |-> "like", item |-> 3]}
  /\ scores = EmptyBag
  /\ friends = EmptyBag /\ frequests = EmptyBag /\ follows = {}
  /\ tasks = {} /\ failed = {}
  /\ req = [r \in Slots |-> IdleReq]
  /\ last = NoResponse

NextFriend ==
  \/ \E s \in Sessions, to \in FriendNames : sendFriendRequest(s, to)
  \/ \E s \in Sessions, to \in FriendNames : removeFriendRequest(s, to)
  \/ \E s \in Sessions, from \in FriendNames : acceptFriendRequest(s, from)
  \/ \E s \in Sessions, from \in FriendNames : rejectFriendRequest(s, from)
  \/ \E s \in Sessions, friend \in FriendNames : removeFriend(s, friend)

SpecFriend == InitFriend /\ [][NextFriend]_vars

\* Login, logout and account deletion, two requests at a time.
NextSession ==
  \/ \E r \in Slots, s \in Sessions, name \in Usernames, pw \in Passwords : logIn(r, s, name, pw)
  \/ \E r \in Slots : logInStart(r)
  \/ \E s \in Sessions : logOut(s)
  \/ \E s \in Sessions : getSessionUser(s)
  \/ \E r \in Slots, s \in Sessions : deleteUser(r, s)
  \/ \E r \in Slots : deleteUserDelete(r)

SpecSession == Init /\ [][NextSession]_vars

\* Registration, rename and deletion of accounts, one request at a time; the
\* sessions log out to register.
NextNames ==
  \/ \E s \in Sessions, name \in Usernames, pw \in NewPasswords : createUser(1, s, name, pw)
  \/ createUserFanout(1)
  \/ \E s \in Sessions, name \in Usernames : updateUsername(s, name)
  \/ \E s \in Sessions : deleteUser(1, s)
  \/ deleteUserDelete(1)
  \/ \E s \in Sessions : logOut(s)

SpecNames == Init /\ [][NextNames]_vars

\* Every route that resolves the acting identity first, one request at a
\* time, called through alice's session and through the logged-out session.
NextGuest ==
  \/ \E s \in Visitors, c \in NewContents : createPost(1, s, c)
  \/ createPostFanout(1)
  \/ createPostRespond(1)
  \/ \E s \in Visitors, id \in Ids, c \in Contents : updatePost(1, s, id, c)
  \/ updatePostUpdate(1)
  \/ \E s \in Visitors, id \in Ids : deletePost(1, s, id)
  \/ deletePostDelete(1)
  \/ \E s \in Visitors, id \in Ids : createComment(1, s, id)
  \/ createCommentProbe(1)
  \/ createCommentCreate(1)
  \/ createCommentFanout(1)
  \/ createCommentRespond(1)
  \/ \E s \in Visitors, id \in Ids : deleteComment(1, s, id)
  \/ deleteCommentDelete(1)
  \/ \E s \in Visitors, id \in Ids : createReaction(1, s, id)
  \/ createReactionProbe(1)
  \/ createReactionCreate(1)
  \/ \E s \in Visitors, id \in Ids : deleteReaction(1, s, id)
  \/ deleteReactionDelete(1)
  \/ \E s \in Visitors, name \in Usernames : follow(s, name)
  \/ \E s \in Visitors, name \in Usernames : unfollow(s, name)
  \/ \E s \in Visitors, to \in Usernames : sendFriendRequest(s, to)
  \/ \E s \in Visitors, to \in Usernames : removeFriendRequest(s, to)
  \/ \E s \in Visitors, from \in Usernames : acceptFriendRequest(s, from)
  \/ \E s \in Visitors, from \in Usernames : rejectFriendRequest(s, from)
  \/ \E s \in Visitors, friend \in Usernames : removeFriend(s, friend)
  \/ \E s \in Visitors, cur \in Passwords, new \in Passwords : updatePassword(s, cur, new)
  \/ \E s \in Visitors : deleteUser(1, s)
  \/ deleteUserDelete(1)

SpecGuest == Init /\ [][NextGuest]_vars

\* Deleting posts and comments that have comments, reactions and score
\* records, and attaching to them afterwards; one request at a time.
NextCascade ==
  \/ \E s \in Members, id \in Ids : deletePost(1, s, id)
  \/ deletePostDelete(1)
  \/ \E s \in Members, id \in Ids : deleteComment(1, s, id)
  \/ deleteCommentDelete(1)
  \/ \E s \in Members, id \in Ids : createComment(1, s, id)
  \/ createCommentProbe(1)
  \/ createCommentCreate(1)
  \/ createCommentFanout(1)
  \/ createCommentRespond(1)
  \/ \E s \in Members, id \in Ids : createReaction(1, s, id)
  \/ createReactionProbe(1)
  \/ createReactionCreate(1)
  \/ \E item \in Ids : ScoringCreateSettle(item)

SpecCascade == Init /\ [][NextCascade]_vars

\* ================================================================ claims
StoredPost(id) == CHOOSE p \in posts : p._id = id
StoredComment(id) == CHOOSE c \in comments : c._id = id
StoredReaction(id) == CHOOSE x \in reactions : x._id = id

IsPost(id) == \E p \in posts : p._id = id
IsComment(id) == \E c \in comments : c._id = id
IsReaction(id) == \E x \in reactions : x._id = id

\* a request of `op` on `id` starts in slot r and is refused with `res`
Refused(r, op, res) ==
  /\ req'[r].pc = "idle"
  /\ last' = Response(op, res, NoId)

\* a request of `op` on `id` as `user` passes its assertion in slot r
Admitted(r, op, user, id) ==
  /\ req'[r].pc = "mutate" /\ req'[r].op = op
  /\ req'[r].user = user /\ req'[r].id = id

\* the step starts a request of `op`: it refuses it, or suspends it in a slot
Starts(op) ==
  \/ last'.op = op /\ req' = req
  \/ \E r \in Slots : req[r].pc = "idle" /\ req'[r].op = op

\* C1: a delete (or update) of a stored post, comment or reaction by a
\* logged-in identity other than its author is refused with NotAuthor and
\* leaves the collections as they were; by its author it is admitted, and its
\* mutating step removes the entity (updates the post, if it is still stored)
\* and answers with success.
C1_AuthorOnly ==
  [][ /\ Starts("deletePost") =>
           \A r \in Slots, s \in Sessions, id \in Ids :
             (IsPost(id) /\ SessioningGetUser(s) # NoId /\ Free(r) /\ deletePost(r, s, id)) =>
               /\ contentVars' = contentVars
               /\ IF StoredPost(id).author # SessioningGetUser(s)
                    THEN Refused(r, "deletePost", "NotAuthor")
                  ELSE Admitted(r, "deletePost", SessioningGetUser(s), id)
      /\ Starts("deleteComment") =>
           \A r \in Slots, s \in Sessions, id \in Ids :
             (IsComment(id) /\ SessioningGetUser(s) # NoId /\ Free(r) /\ deleteComment(r, s, id)) =>
               /\ contentVars' = contentVars
               /\ IF StoredComment(id).author # SessioningGetUser(s)
                    THEN Refused(r, "deleteComment", "NotAuthor")
                  ELSE Admitted(r, "deleteComment", SessioningGetUser(s), id)
      /\ Starts("deleteReaction") =>
           \A r \in Slots, s \in Sessions, id \in Ids :
             (IsReaction(id) /\ SessioningGetUser(s) # NoId /\ Free(r) /\ deleteReaction(r, s, id)) =>
               /\ contentVars' = contentVars
               /\ IF StoredReaction(id).author # SessioningGetUser(s)
                    THEN Refused(r, "deleteReaction", "NotAuthor")
                  ELSE Admitted(r, "deleteReaction", SessioningGetUser(s), id)
      /\ Starts("updatePost") =>
           \A r \in Slots, s \in Sessions, id \in Ids, c \in Contents :
             (IsPost(id) /\ SessioningGetUser(s) # NoId /\ Free(r) /\ updatePost(r, s, id, c)) =>
               /\ contentVars' = contentVars
               /\ IF StoredPost(id).author # SessioningGetUser(s)
                    THEN Refused(r, "updatePost", "NotAuthor")
                  ELSE Admitted(r, "updatePost", SessioningGetUser(s), id)
                       /\ req'[r].content = c
      /\ \A r \in Slots :
           (req[r].pc = "mutate" /\ req'[r].pc = "idle") =>
             /\ last' = Response(req[r].op, "ok", NoId)
             /\ req[r].op = "deletePost" =>
                  /\ posts' = {p \in posts : p._id # req[r].id}
                  /\ comments' = comments /\ reactions' = reactions
             /\ req[r].op = "deleteComment" =>
                  /\ comments' = {c \in comments : c._id # req[r].id}
                  /\ posts' = posts /\ reactions' = reactions
             /\ req[r].op = "deleteReaction" =>
                  /\ reactions' = {x \in reactions : x._id # req[r].id}
                  /\ posts' = posts /\ comments' = comments
             /\ req[r].op = "updatePost" =>
                  /\ comments' = comments /\ reactions' = reactions
                  /\ {p._id : p \in posts'} = {p._id : p \in posts}
                  /\ \A p \in posts :
                       IF p._id = req[r].id
                         THEN [_id |-> p._id, author |-> p.author,
                               content |-> req[r].content] \in posts'
                       ELSE p \in posts'
      /\ \A r \in Slots :
           (req[r].pc = "mutate") =>
             /\ \A p \in posts : p._id = req[r].id => p.author = req[r].user
             /\ \A c \in comments : c._id = req[r].id => c.author = req[r].user
             /\ \A x \in reactions : x._id = req[r].id => x.author = req[r].user
    ]_vars

\* C1 witness: alice's post 3 is gone (only her own delete removes it) while
\* alice's delete of bob's reaction 5 has just been refused, the reaction
\* being still stored.
C1_Witness ==
  /\ ~IsPost(3)
  /\ last = Response("deleteReaction", "NotAuthor", NoId)
  /\ IsReaction(5) /\ StoredReaction(5).author = 2

\* the request suspended in slot r at `pc` of `op` takes its next step
Steps(r, op, pc) == At(r, op, pc) /\ req'[r] # req[r]

\* the step stores nothing and starts no score write
NothingStored ==
  /\ contentVars' = contentVars
  /\ scoreVars' = scoreVars
  /\ kinds' = kinds

\* C2: createComment by a logged-in user with parent P probes Posting, and
\* Commenting only when P is no post; it stores one comment by that user with
\* parent P when P is a post, or is no post but a comment, at the probe; when
\* P is neither it answers NotFound, stores no comment and starts no score
\* write. The outcome is fixed by P and the two collections.
C2_CommentParent ==
  [][ /\ Starts("createComment") =>
           \A r \in Slots, s \in Sessions, P \in Ids :
             (SessioningGetUser(s) # NoId /\ Free(r) /\ createComment(r, s, P)) =>
               /\ NothingStored
               /\ req'[r].op = "createComment"
               /\ req'[r].user = SessioningGetUser(s) /\ req'[r].id = P
               /\ req'[r].pc = IF IsPost(P) THEN "create" ELSE "probe"
      /\ \A r \in Slots :
           /\ Steps(r, "createComment", "probe") =>
                /\ NothingStored
                /\ IF IsComment(req[r].id)
                     THEN req' = [req EXCEPT ![r].pc = "create"]
                   ELSE Refused(r, "createComment", "NotFound")
           /\ Steps(r, "createComment", "create") =>
                /\ comments' = comments \cup {[_id |-> nextId, author |-> req[r].user,
                                               parent |-> req[r].id]}
                /\ nextId \notin {c._id : c \in comments}
                /\ req' = [req EXCEPT ![r].pc = "fanout", ![r].new = nextId]
                /\ scoreVars' = scoreVars
      /\ (comments' # comments) => \E r \in Slots : Steps(r, "createComment", "create")
    ]_vars

\* C2 witness: a comment on a comment is stored (its parent is no post), and
\* a createComment naming neither a post nor a comment was just refused.
C2_Witness ==
  /\ \E c \in comments : IsComment(c.parent) /\ ~IsPost(c.parent)
  /\ last = Response("createComment", "NotFound", NoId)

\* C3: createReaction by a logged-in user on item I probes Posting, then
\* Commenting; it stores one reaction by that user on I exactly when I is a
\* post, or a comment, at its probe; when I is neither it answers NotFound
\* and the reactions are as before.
C3_ReactionParent ==
  [][ /\ Starts("createReaction") =>
           \A r \in Slots, s \in Sessions, I \in Ids :
             (SessioningGetUser(s) # NoId /\ Free(r) /\ createReaction(r, s, I)) =>
               /\ NothingStored
               /\ req'[r].op = "createReaction"
               /\ req'[r].user = SessioningGetUser(s) /\ req'[r].id = I
               /\ req'[r].pc = IF IsPost(I) THEN "create" ELSE "probe"
      /\ \A r \in Slots :
           /\ Steps(r, "createReaction", "probe") =>
                /\ NothingStored
                /\ IF IsComment(req[r].id)
                     THEN req' = [req EXCEPT ![r].pc = "create"]
                   ELSE Refused(r, "createReaction", "NotFound")
           /\ Steps(r, "createReaction", "create") =>
                /\ reactions' = reactions \cup {[_id |-> nextId, author |-> req[r].user,
                                                 type |-> "like", item |-> req[r].id]}
                /\ nextId \notin {x._id : x \in reactions}
                /\ last' = Response("createReaction", "ok", NoId)
                /\ req'[r].pc = "idle"
      /\ (reactions' # reactions) => \E r \in Slots : Steps(r, "createReaction", "create")
    ]_vars

\* C3 witness: a reaction on a comment is stored next to bob's reaction on
\* post 3, and a createReaction on an id that is neither was just refused.
C3_Witness ==
  /\ \E x \in reactions : IsComment(x.item)
  /\ \E x \in reactions : x.item = 3
  /\ last = Response("createReaction", "NotFound", NoId)


\* the ids of the registered users
UserIds == {u._id : u \in users}

\* the pending requests from -> to, and the relationships of {a, b}, after the step
PendingAfter(from, to) == CopiesIn(RequestDoc(from, to), frequests')
FriendshipsAfter(a, b) == CopiesIn(FriendDoc(a, b), friends')
                          + (IF a = b THEN 0 ELSE CopiesIn(FriendDoc(b, a), friends'))

\* the step answers `op` with InvalidState and leaves Friending as it was
FailsUnchanged(op) ==
  /\ last' = Response(op, "InvalidState", NoId)
  /\ friendVars' = friendVars

\* C4: a sendRequest(A,B) that is allowed leaves exactly one pending request
\* A->B, and a sendRequest(A,B) while A->B is pending fails with InvalidState
\* and leaves exactly that one request; acceptRequest(A,B) on the request
\* just sent (A->B pending, A and B not friends, as sendRequest requires)
\* succeeds and leaves no pending A->B and exactly one relationship {A,B};
\* acceptRequest(A,B) with no pending A->B fails and creates no relationship.
C4_SendThenAccept ==
  [][ \A s \in Sessions, n \in FriendNames :
        LET U == SessioningGetUser(s)
            N == AuthingGetUserByUsername(n)
        IN (U # NoId /\ N # NoId) =>
             /\ (FriendingCanSendRequest(U, N) /\ sendFriendRequest(s, n)) =>
                  /\ last' = Response("sendFriendRequest", "ok", NoId)
                  /\ PendingAfter(U, N) = 1
                  /\ friends' = friends
             /\ (Pending(U, N) >= 1 /\ sendFriendRequest(s, n)) =>
                  /\ FailsUnchanged("sendFriendRequest")
                  /\ PendingAfter(U, N) = 1
             /\ (Pending(N, U) >= 1 /\ Friendships(N, U) = 0 /\ acceptFriendRequest(s, n)) =>
                  /\ last' = Response("acceptFriendRequest", "ok", NoId)
                  /\ PendingAfter(N, U) = 0
                  /\ FriendshipsAfter(N, U) = 1
             /\ (Pending(N, U) = 0 /\ acceptFriendRequest(s, n)) =>
                  /\ FailsUnchanged("acceptFriendRequest")
    ]_vars

\* C4 witness: bob has just accepted alice's request; nothing is pending
\* between them and they have one relationship.
C4_Witness ==
  /\ last = Response("acceptFriendRequest", "ok", NoId)
  /\ Pending(1, 2) = 0 /\ Pending(2, 1) = 0
  /\ Friendships(1, 2) = 1

\* C5: no pair of users has both a friend relationship and a pending request
\* between them, in either direction.
C5_NoRequestBesideFriendship ==
  \A a \in UserIds, b \in UserIds :
    Friendships(a, b) >= 1 => (Pending(a, b) = 0 /\ Pending(b, a) = 0)

\* C6: there is at most one stored relationship per unordered pair of users,
\* and none of a user with themselves.
C6_OneRelationshipPerPair ==
  \A a \in UserIds, b \in UserIds :
    /\ Friendships(a, b) <= 1
    /\ Friendships(a, a) = 0

\* C7: rejectRequest(A,B) or removeRequest(A,B) on a pending A->B succeeds,
\* leaves no pending A->B and creates no relationship; with no pending A->B,
\* acceptRequest, rejectRequest and removeRequest of (A,B) fail and change
\* nothing; removeFriend(U,F) fails and changes nothing when {U,F} have no
\* relationship. No request is ever pending twice.
C7_PendingLeftOnce ==
  [][ /\ \A a \in UserIds, b \in UserIds : PendingAfter(a, b) <= 1
      /\ \A s \in Sessions, n \in FriendNames :
           LET U == SessioningGetUser(s)
               N == AuthingGetUserByUsername(n)
           IN (U # NoId /\ N # NoId) =>
                /\ (Pending(N, U) >= 1 /\ rejectFriendRequest(s, n)) =>
                     /\ last' = Response("rejectFriendRequest", "ok", NoId)
                     /\ PendingAfter(N, U) = 0
                     /\ friends' = friends
                /\ (Pending(U, N) >= 1 /\ removeFriendRequest(s, n)) =>
                     /\ last' = Response("removeFriendRequest", "ok", NoId)
                     /\ PendingAfter(U, N) = 0
                     /\ friends' = friends
                /\ (Pending(N, U) = 0 /\ rejectFriendRequest(s, n)) =>
                     FailsUnchanged("rejectFriendRequest")
                /\ (Pending(N, U) = 0 /\ acceptFriendRequest(s, n)) =>
                     FailsUnchanged("acceptFriendRequest")
                /\ (Pending(U, N) = 0 /\ removeFriendRequest(s, n)) =>
                     FailsUnchanged("removeFriendRequest")
                /\ (Friendships(U, N) = 0 /\ removeFriend(s, n)) =>
                     FailsUnchanged("removeFriend")
    ]_vars

\* C7 witness: a request has just been rejected; alice's request to bob is
\* not pending, bob's to alice still is, and nobody is friends.
C7_Witness ==
  /\ last = Response("rejectFriendRequest", "ok", NoId)
  /\ Pending(1, 2) = 0 /\ Pending(2, 1) = 1
  /\ friends = EmptyBag


\* the documents of the initial state, stored before the routes fanned out
Seeded == {1, 2, 3, 4, 5}

IsUser(id) == \E u \in users : u._id = id

\* x is the id of a user, post or comment that its creating route has stored
Created(x) ==
  /\ x \notin Seeded
  /\ x <= Len(kinds)
  /\ \/ kinds[x] = "user" /\ IsUser(x)
     \/ kinds[x] = "post" /\ IsPost(x)
     \/ kinds[x] = "comment" /\ IsComment(x)

\* a score record of x with the initial value is stored
HasInitialScore(x) == CopiesIn(ScoreDoc(x, 0), scores) >= 1

\* every score write that the step starts is for an entity that was stored,
\* under that id, before the step
StartedAfterStored ==
  \A x \in tasks' \ tasks : Created(x) /\ \E r \in Slots : req[r].new = x

\* C8 (as stated): once createUser, createPost or createComment has stored
\* X, a score record of X with value 0 eventually exists, and no score write
\* starts before X is stored.
C8_ScoreEventually ==
  /\ [][StartedAfterStored]_vars
  /\ \A x \in Ids : Created(x) ~> HasInitialScore(x)

\* C8 (amended): once createUser, createPost or createComment has stored X,
\* eventually a score record of X with value 0 exists or the score write of
\* X has been rejected, and no score write starts before X is stored.
C8_ScoreEventuallyOrRejected ==
  /\ [][StartedAfterStored]_vars
  /\ \A x \in Ids : Created(x) ~> (HasInitialScore(x) \/ x \in failed)

\* C8 witness: createPost has just answered, and the score record of the new
\* post is already stored with value 0.
C8_Witness ==
  /\ last = Response("createPost", "ok", NoId)
  /\ \E x \in Ids : Created(x) /\ kinds[x] = "post" /\ HasInitialScore(x) /\ x \notin tasks

\* C9: the step that answers a createUser, createPost or createComment which
\* has stored its entity answers with success and leaves the entity stored,
\* whatever the state of the score write; the rejection (and the completion)
\* of a score write answers no request, changes no request and removes
\* nothing; a created entity stays stored.
C9_PrimaryAuthoritative ==
  [][ /\ \A r \in Slots :
           /\ Steps(r, "createUser", "fanout") =>
                /\ last' = Response("createUser", "ok", NoId)
                /\ req'[r].pc = "idle"
                /\ \A x \in Ids : x = req[r].new => Created(x)'
           /\ Steps(r, "createPost", "respond") =>
                /\ last' = Response("createPost", "ok", NoId)
                /\ req'[r].pc = "idle"
                /\ \A x \in Ids : x = req[r].new => Created(x)'
           /\ Steps(r, "createComment", "respond") =>
                /\ last' = Response("createComment", "ok", NoId)
                /\ req'[r].pc = "idle"
                /\ \A x \in Ids : x = req[r].new => Created(x)'
      /\ (failed' # failed \/ scores' # scores) =>
           /\ last' = NoResponse
           /\ req' = req
           /\ users' = users /\ contentVars' = contentVars
      /\ \A x \in Ids : Created(x) => Created(x)'
    ]_vars

\* C9 witness: createPost has just answered with success although the score
\* write of the new post was rejected; the post is stored, without a score.
C9_Witness ==
  /\ last = Response("createPost", "ok", NoId)
  /\ \E x \in Ids : Created(x) /\ kinds[x] = "post" /\ x \in failed /\ ScoresOf(x) = {}

\* the items that have a score record
Scored == {d.item : d \in BagToSet(scores)}

\* the number of score records of an item
ScoreCount(bag, item) ==
  LET docs == {d \in BagToSet(bag) : d.item = item}
  IN IF docs = {} THEN 0
     ELSE IF Cardinality(docs) > 1 THEN 2
     ELSE CopiesIn(CHOOSE d \in docs : TRUE, bag)

\* C10: there is at most one score record per item, each of a user, post or
\* comment that createUser, createPost or createComment stored; a score write
\* is started only by the Scoring.create line of these three routes, for the
\* entity just stored, and a score record appears only when such a write
\* completes; updateScoreByItem and createReaction bring none into existence.
C10_OneScorePerCreation ==
  [][ /\ \A x \in Scored' : ScoreCount(scores', x) = 1 /\ x \in Ids /\ Created(x)'
      /\ \A x \in tasks' \ tasks :
           /\ Created(x)
           /\ \E r \in Slots :
                /\ \/ Steps(r, "createUser", "fanout")
                   \/ Steps(r, "createPost", "fanout")
                   \/ Steps(r, "createComment", "fanout")
                /\ req[r].new = x
      /\ \A x \in Scored' \ Scored : x \in tasks /\ x \notin tasks' /\ req' = req
      /\ (\/ last'.op = "updateScoreByItem" \/ last'.op = "createReaction"
          \/ \E r \in Slots : req[r].op = "createReaction" /\ req'[r] # req[r]) =>
           /\ Scored' = Scored
           /\ tasks' = tasks
    ]_vars

\* C10 witness: updateScoreByItem has just answered; the one score record of
\* a created entity carries the updated value, and post 3, which has no score
\* record, got none from an update.
C10_Witness ==
  /\ last = Response("updateScoreByItem", "ok", NoId)
  /\ \E x \in Ids : Created(x) /\ CopiesIn(ScoreDoc(x, 1), scores) = 1 /\ ScoreCount(scores, x) = 1
  /\ ScoresOf(3) = {}


\* the step answers `op` with Unauthenticated; the store, the sessions and
\* the requests in flight are as before
Unauthenticated(op) ==
  /\ last' = Response(op, "Unauthenticated", NoId)
  /\ UNCHANGED <<users, sessions, contentVars, scoreVars, friendVars, kinds, req>>

\* the logged-out sessions
Guests == {s \in Sessions : SessioningGetUser(s) = NoId}

\* C11: called through a session without a bound identity, each route that
\* resolves the acting identity with Sessioning.getUser answers
\* Unauthenticated in the step that starts it, and the collections, the
\* sessions and the other requests are unchanged.
C11_GuestRefused ==
  [][ /\ Starts("createPost") =>
           \/ Unauthenticated("createPost")
           \/ \A s \in Guests, r \in Slots, c \in NewContents : ~createPost(r, s, c)
      /\ Starts("updatePost") =>
           \/ Unauthenticated("updatePost")
           \/ \A s \in Guests, r \in Slots, id \in Ids, c \in Contents : ~updatePost(r, s, id, c)
      /\ Starts("deletePost") =>
           \/ Unauthenticated("deletePost")
           \/ \A s \in Guests, r \in Slots, id \in Ids : ~deletePost(r, s, id)
      /\ Starts("createComment") =>
           \/ Unauthenticated("createComment")
           \/ \A s \in Guests, r \in Slots, id \in Ids : ~createComment(r, s, id)
      /\ Starts("deleteComment") =>
           \/ Unauthenticated("deleteComment")
           \/ \A s \in Guests, r \in Slots, id \in Ids : ~deleteComment(r, s, id)
      /\ Starts("createReaction") =>
           \/ Unauthenticated("createReaction")
           \/ \A s \in Guests, r \in Slots, id \in Ids : ~createReaction(r, s, id)
      /\ Starts("deleteReaction") =>
           \/ Unauthenticated("deleteReaction")
           \/ \A s \in Guests, r \in Slots, id \in Ids : ~deleteReaction(r, s, id)
      /\ Starts("deleteUser") =>
           \/ Unauthenticated("deleteUser")
           \/ \A s \in Guests, r \in Slots : ~deleteUser(r, s)
      /\ Starts("updatePassword") =>
           \/ Unauthenticated("updatePassword")
           \/ \A s \in Guests, cur \in Passwords, new \in Passwords : ~updatePassword(s, cur, new)
      /\ Starts("follow") =>
           \/ Unauthenticated("follow")
           \/ \A s \in Guests, name \in Usernames : ~follow(s, name)
      /\ Starts("unfollow") =>
           \/ Unauthenticated("unfollow")
           \/ \A s \in Guests, name \in Usernames : ~unfollow(s, name)
      /\ Starts("sendFriendRequest") =>
           \/ Unauthenticated("sendFriendRequest")
           \/ \A s \in Guests, name \in Usernames : ~sendFriendRequest(s, name)
      /\ Starts("removeFriendRequest") =>
           \/ Unauthenticated("removeFriendRequest")
           \/ \A s \in Guests, name \in Usernames : ~removeFriendRequest(s, name)
      /\ Starts("acceptFriendRequest") =>
           \/ Unauthenticated("acceptFriendRequest")
           \/ \A s \in Guests, name \in Usernames : ~acceptFriendRequest(s, name)
      /\ Starts("rejectFriendRequest") =>
           \/ Unauthenticated("rejectFriendRequest")
           \/ \A s \in Guests, name \in Usernames : ~rejectFriendRequest(s, name)
      /\ Starts("removeFriend") =>
           \/ Unauthenticated("removeFriend")
           \/ \A s \in Guests, name \in Usernames : ~removeFriend(s, name)
    ]_vars

\* C11 witness: after alice has deleted her post, followed bob and deleted
\* her account, a createPost through a session without identity was refused.
C11_Witness ==
  /\ last = Response("createPost", "Unauthenticated", NoId)
  /\ ~IsPost(3)
  /\ FollowDoc(1, 2) \in follows
  /\ \A s \in Sessions : s \in Guests \/ s \notin Visitors


\* the identities that hold this username and this password
Holders(name, password) ==
  {u._id : u \in {v \in users : v.username = name /\ v.password = password}}

C13_LogoutIdempotent ==
  [][ /\ Starts("logOut") =>
           \A s \in Sessions :
             logOut(s) =>
               /\ last' = Response("logOut", "ok", NoId)
               /\ sessions' = [sessions EXCEPT ![s] = NoId]
               /\ SessioningIsLoggedOut(s) => sessions' = sessions
               /\ UNCHANGED <<users, contentVars, scoreVars, friendVars, kinds, req>>
      /\ Starts("getSessionUser") =>
           \A s \in Guests : getSessionUser(s) => Unauthenticated("getSessionUser")
    ]_vars

\* C13 witness: every session has been logged out (the third was logged out
\* from the start), and the latest logOut answered with success.
C13_Witness ==
  /\ last = Response("logOut", "ok", NoId)
  /\ \A s \in Sessions : SessioningIsLoggedOut(s)
  /\ \A r \in Slots : req[r].pc = "idle"


\* no two stored identities share a username, after the step
UniqueUsernames ==
  \A u \in users', v \in users' : u.username = v.username => u = v

\* C14: no two stored identities ever share a username. A createUser through
\* a logged-out session, and an updateUsername through a logged-in one, with
\* a username that an identity holds, answers DuplicateUsername, leaves the
\* identities as they are and starts no score write; with a free username
\* createUser stores one identity more, under that name.
C14_UsernamesUnique ==
  [][ /\ UniqueUsernames
      /\ Starts("createUser") =>
           \A r \in Slots, s \in Guests, name \in Usernames, pw \in NewPasswords :
             (Free(r) /\ createUser(r, s, name, pw)) =>
               IF AuthingUsernameTaken(name)
                 THEN /\ Refused(r, "createUser", "DuplicateUsername")
                      /\ UNCHANGED <<users, scoreVars, kinds, sessions>>
               ELSE /\ users' = users \cup {[_id |-> nextId, username |-> name,
                                             password |-> pw]}
                    /\ ~AuthingExists(nextId)
                    /\ req'[r].new = nextId
      /\ Starts("updateUsername") =>
           \A s \in Sessions \ Guests, name \in Usernames :
             (AuthingUsernameTaken(name) /\ updateUsername(s, name)) =>
               /\ last' = Response("updateUsername", "DuplicateUsername", NoId)
               /\ UNCHANGED <<users, scoreVars, kinds, sessions, req>>
    ]_vars

\* C14 witness: a third identity has registered, alice has taken a new name,
\* and a rename to a name that is held was just refused.
C14_Witness ==
  /\ last = Response("updateUsername", "DuplicateUsername", NoId)
  /\ AuthingExists(6)
  /\ \E u \in users : u._id = 1 /\ u.username # "alice"


\* the step refuses the request starting in slot r with NotFound and changes
\* no collection
NotFoundUnchanged(r, op) ==
  /\ Refused(r, op, "NotFound")
  /\ UNCHANGED <<users, sessions, contentVars, scoreVars, friendVars, kinds>>

\* C15: deletePost, deleteComment, deleteReaction and updatePost by a
\* logged-in user on an id under which no such entity is stored (never
\* stored, of another kind, or deleted before) answer NotFound and leave
\* every collection unchanged.
C15_AbsentNotFound ==
  [][ /\ Starts("deletePost") =>
           \A r \in Slots, s \in Sessions \ Guests, id \in Ids :
             (~IsPost(id) /\ Free(r) /\ deletePost(r, s, id)) =>
               NotFoundUnchanged(r, "deletePost")
      /\ Starts("deleteComment") =>
           \A r \in Slots, s \in Sessions \ Guests, id \in Ids :
             (~IsComment(id) /\ Free(r) /\ deleteComment(r, s, id)) =>
               NotFoundUnchanged(r, "deleteComment")
      /\ Starts("deleteReaction") =>
           \A r \in Slots, s \in Sessions \ Guests, id \in Ids :
             (~IsReaction(id) /\ Free(r) /\ deleteReaction(r, s, id)) =>
               NotFoundUnchanged(r, "deleteReaction")
      /\ Starts("updatePost") =>
           \A r \in Slots, s \in Sessions \ Guests, id \in Ids, c \in Contents :
             (~IsPost(id) /\ Free(r) /\ updatePost(r, s, id, c)) =>
               NotFoundUnchanged(r, "updatePost")
    ]_vars

\* C15 witness: the post, the comment and the reaction of the initial state
\* have all been deleted, and a further deleteReaction was answered NotFound.
C15_Witness ==
  /\ posts = {} /\ comments = {} /\ reactions = {}
  /\ last = Response("deleteReaction", "NotFound", NoId)


\* x was stored as a post or a comment and has been deleted
Deleted(x) ==
  /\ x <= Len(kinds)
  /\ kinds[x] \in {"post", "comment"}
  /\ ~IsPost(x) /\ ~IsComment(x)

\* C16: the deleting step of deletePost removes the addressed post and
\* nothing else, that of deleteComment the addressed comment and nothing
\* else: the comments and reactions that name it as parent or item and all
\* score records stay stored as they are. A createComment or createReaction
\* that names a deleted post or comment finds it at neither probe, answers
\* NotFound and stores nothing.
C16_NoCascade ==
  [][ \A r \in Slots :
        /\ Steps(r, "deletePost", "mutate") =>
             /\ posts' = {p \in posts : p._id # req[r].id}
             /\ UNCHANGED <<comments, reactions, scoreVars, users, kinds>>
        /\ Steps(r, "deleteComment", "mutate") =>
             /\ comments' = {c \in comments : c._id # req[r].id}
             /\ UNCHANGED <<posts, reactions, scoreVars, users, kinds>>
        /\ (Starts("createComment") \/ Starts("createReaction")) =>
             \A s \in Sessions \ Guests, P \in Ids :
               (Deleted(P) /\ Free(r)
                  /\ (createComment(r, s, P) \/ createReaction(r, s, P))) =>
                 /\ req'[r].pc = "probe" /\ req'[r].id = P
                 /\ NothingStored
        /\ ((Steps(r, "createComment", "probe") \/ Steps(r, "createReaction", "probe"))
            /\ Deleted(req[r].id)) =>
             /\ Refused(r, req[r].op, "NotFound")
             /\ NothingStored
    ]_vars

\* C16 witness: post 3 is deleted while the comment and the reaction on it
\* are stored; a comment that the routes created is deleted while its score
\* record is stored; and a createComment on a deleted parent was refused.
C16_Witness ==
  /\ Deleted(3)
  /\ IsComment(4) /\ StoredComment(4).parent = 3
  /\ IsReaction(5) /\ StoredReaction(5).item = 3
  /\ \E x \in Ids \ Seeded : Deleted(x) /\ HasInitialScore(x)
  /\ last = Response("createComment", "NotFound", NoId)


\* no stored post with this id has another author than `user`
NotAnothers(id, user) == \A p \in posts : p._id = id => p.author = user

\* C17: a deletePost or updatePost by the author is admitted while the post
\* is stored and answered NotFound once it is gone, never NotAuthor; an
\* admitted request can always take its mutating step, which answers with
\* success whether or not the post is still there; the delete leaves the
\* post absent, the update stores no post that was not stored, and a deleted
\* post stays absent.
C17_AuthorRace ==
  [][ /\ Starts("deletePost") =>
           \A r \in Slots, s \in Sessions \ Guests, id \in Ids :
             (NotAnothers(id, SessioningGetUser(s)) /\ Free(r) /\ deletePost(r, s, id)) =>
               IF IsPost(id) THEN Admitted(r, "deletePost", SessioningGetUser(s), id)
               ELSE Refused(r, "deletePost", "NotFound")
      /\ Starts("updatePost") =>
           \A r \in Slots, s \in Sessions \ Guests, id \in Ids, c \in Contents :
             (NotAnothers(id, SessioningGetUser(s)) /\ Free(r) /\ updatePost(r, s, id, c)) =>
               IF IsPost(id) THEN Admitted(r, "updatePost", SessioningGetUser(s), id)
               ELSE Refused(r, "updatePost", "NotFound")
      /\ \A r \in Slots :
           /\ At(r, "deletePost", "mutate") => ENABLED deletePostDelete(r)
           /\ At(r, "updatePost", "mutate") => ENABLED updatePostUpdate(r)
           /\ Steps(r, "deletePost", "mutate") =>
                /\ last' = Response("deletePost", "ok", NoId)
                /\ req'[r].pc = "idle"
                /\ \A p \in posts' : p._id # req[r].id
           /\ Steps(r, "updatePost", "mutate") =>
                /\ last' = Response("updatePost", "ok", NoId)
                /\ req'[r].pc = "idle"
                /\ {p._id : p \in posts'} = {p._id : p \in posts}
      /\ \A id \in Ids : Deleted(id) => Deleted(id)'
    ]_vars

\* C17 witness: alice's updatePost has just answered with success although
\* her concurrent deletePost had removed the post before; the post is absent.
C17_Witness ==
  /\ last = Response("updatePost", "ok", NoId)
  /\ Deleted(3)
  /\ posts = {}


\* C18: every session that has a bound identity is bound to a stored
\* identity.
C18_BoundToStoredIdentity ==
  \A s \in Sessions : SessioningGetUser(s) # NoId => AuthingExists(SessioningGetUser(s))


\* the step is the mutating step of a request of one of `ops` on `id`, made
\* under the identity `author`
MutatedBy(ops, id, author) ==
  \E r \in Slots :
    /\ req[r].pc = "mutate" /\ req'[r].pc = "idle"
    /\ req[r].op \in ops
    /\ req[r].id = id /\ req[r].user = author

\* C19: whatever the interleaving of the requests, a stored post, comment or
\* reaction disappears or changes only in the mutating step of a request on
\* it whose identity is its stored author; a request passes its assertion
\* only under the identity of a session and as the author stored then, and
\* no entity's author ever changes.
C19_OnlyAuthorMutates ==
  [][ /\ \A p \in posts \ posts' : MutatedBy({"deletePost", "updatePost"}, p._id, p.author)
      /\ \A c \in comments \ comments' : MutatedBy({"deleteComment"}, c._id, c.author)
      /\ \A x \in reactions \ reactions' : MutatedBy({"deleteReaction"}, x._id, x.author)
      /\ \A p \in posts, q \in posts' : p._id = q._id => p.author = q.author
      /\ \A r \in Slots :
           (req[r].pc = "idle" /\ req'[r].pc = "mutate") =>
             /\ \E s \in Sessions : SessioningGetUser(s) = req'[r].user
             /\ req'[r].user # NoId
             /\ \/ req'[r].op \in {"deletePost", "updatePost"}
                   /\ IsPost(req'[r].id) /\ StoredPost(req'[r].id).author = req'[r].user
                \/ req'[r].op = "deleteComment"
                   /\ IsComment(req'[r].id) /\ StoredComment(req'[r].id).author = req'[r].user
                \/ req'[r].op = "deleteReaction"
                   /\ IsReaction(req'[r].id) /\ StoredReaction(req'[r].id).author = req'[r].user
    ]_vars

\* C19 witness: bob's deleteComment has passed its assertion and has not
\* deleted yet; in that gap alice's deleteComment on the same comment was
\* refused, and the comment is stored.
C19_Witness ==
  /\ At(1, "deleteComment", "mutate") /\ req[1].user = 2 /\ req[1].id = 4
  /\ last = Response("deleteComment", "NotAuthor", NoId)
  /\ IsComment(4)


\* a post or a comment with id x is stored
IsParent(x) == IsPost(x) \/ IsComment(x)

\* the creating routes that name a parent
ChildOps == {"createComment", "createReaction"}

\* C20 as stated: every comment and every reaction that a step stores names
\* a post or a comment that is stored at that step.
C20_ParentStoredAtStore ==
  [][ /\ \A c \in comments' \ comments : IsParent(c.parent)
      /\ \A x \in reactions' \ reactions : IsParent(x.item)
    ]_vars

\* C20 amended: a request of createComment or createReaction gets past its
\* probes only in a step at which its parent is stored as a post or a
\* comment, and answers NotFound when the parent is neither at its second
\* probe; past the probes it keeps its parent and its storing step stores
\* the child naming that parent, whether or not the parent is still stored;
\* a comment or reaction is stored only by such a storing step.
C20_ParentStoredAtProbe ==
  [][ /\ \A r \in Slots :
           /\ (req[r].pc # "create" /\ req'[r].pc = "create" /\ req'[r].op \in ChildOps) =>
                /\ IsParent(req'[r].id)
                /\ req[r].pc = "idle" => IsPost(req'[r].id)
                /\ req[r].pc = "probe" => (IsComment(req[r].id) /\ req'[r].id = req[r].id)
           /\ (req[r].pc = "probe" /\ req[r].op \in ChildOps /\ req'[r] # req[r]
               /\ ~IsComment(req[r].id)) => Refused(r, req[r].op, "NotFound")
           /\ (req[r].pc = "create" /\ req'[r].pc = "create") => req'[r] = req[r]
           /\ Steps(r, "createComment", "create") =>
                \E c \in comments' \ comments :
                  c.parent = req[r].id /\ c.author = req[r].user
           /\ Steps(r, "createReaction", "create") =>
                \E x \in reactions' \ reactions :
                  x.item = req[r].id /\ x.author = req[r].user
      /\ \A c \in comments' \ comments :
           \E r \in Slots : Steps(r, "createComment", "create") /\ c.parent = req[r].id
      /\ \A x \in reactions' \ reactions :
           \E r \in Slots : Steps(r, "createReaction", "create") /\ x.item = req[r].id
    ]_vars

\* C20 witness: a comment or a reaction has been stored by its route while
\* what it names was deleted between the probe and the store, and the
\* deletion was answered with success.
C20_Witness ==
  /\ \/ \E c \in comments : c._id \notin Seeded /\ Deleted(c.parent)
     \/ \E x \in reactions : x._id \notin Seeded /\ Deleted(x.item)
  /\ \A r \in Slots : req[r].pc = "idle"


\* the step stores one more relationship document a - b
Befriends(a, b) == CopiesIn(FriendDoc(a, b), friends') > CopiesIn(FriendDoc(a, b), friends)

\* the step leaves fewer requests a -> b pending
Settles(a, b) == PendingAfter(a, b) < Pending(a, b)

\* the step is a request of a Friending route, naming `n`, on a session
\* bound to `user`, and `n` is the username of `named`
ByOn(user, named, route(_, _)) ==
  \E s \in Sessions, n \in FriendNames :
    /\ SessioningGetUser(s) = user
    /\ AuthingGetUserByUsername(n) = named
    /\ route(s, n)

\* C21: a relationship document A - B is stored only by acceptFriendRequest
\* on a session bound to B naming A while A -> B is pending; a pending
\* request A -> B stops being pending only by acceptFriendRequest or
\* rejectFriendRequest on a session bound to B naming A, or by
\* removeFriendRequest on a session bound to A naming B; a request on a
\* session bound to anyone else, and an accept by A of A's own request,
\* leave the request pending and store no relationship of A and B.
C21_TargetDecides ==
  [][ /\ \A a \in UserIds, b \in UserIds :
           /\ Befriends(a, b) =>
                /\ Pending(a, b) >= 1
                /\ ByOn(b, a, acceptFriendRequest)
           /\ Settles(a, b) =>
                \/ ByOn(b, a, acceptFriendRequest)
                \/ ByOn(b, a, rejectFriendRequest)
                \/ ByOn(a, b, removeFriendRequest)
      /\ \/ (frequests' = frequests /\ friends' = friends)
         \/ \A a \in UserIds, b \in UserIds :
              (Pending(a, b) >= 1 /\ Pending(b, a) = 0) =>
                \A s \in Sessions, n \in FriendNames :
                  LET U == SessioningGetUser(s)
                  IN U # b =>
                       /\ acceptFriendRequest(s, n) =>
                            (~Settles(a, b) /\ ~Befriends(a, b) /\ ~Befriends(b, a))
                       /\ rejectFriendRequest(s, n) =>
                            (~Settles(a, b) /\ friends' = friends)
                       /\ (U # a /\ removeFriendRequest(s, n)) =>
                            (~Settles(a, b) /\ friends' = friends)
    ]_vars

\* C21 witness: alice's request to bob is the only pending one and nobody is
\* friends; an accept, by someone other than bob naming alice, has just been
\* refused.
C21_Witness ==
  /\ Pending(1, 2) = 1
  /\ \A a \in UserIds, b \in UserIds : <<a, b>> # <<1, 2>> => Pending(a, b) = 0
  /\ friends = EmptyBag
  /\ last = Response("acceptFriendRequest", "InvalidState", NoId)


\* C22: a createUser through a session that is bound to an identity is
\* refused with NotAllowed and stores no identity and starts no score write,
\* whatever the username; no step of createUser, refused or not, changes any
\* session, so the bound session stays bound as it was and the session of a
\* successful registration stays logged out.
C22_RegisterLoggedOut ==
  [][ /\ Starts("createUser") =>
           \A r \in Slots, s \in Sessions, name \in Usernames, pw \in NewPasswords :
             (Free(r) /\ createUser(r, s, name, pw)) =>
               /\ sessions' = sessions
               /\ SessioningGetUser(s) # NoId =>
                    /\ Refused(r, "createUser", "NotAllowed")
                    /\ users' = users
                    /\ NothingStored
               /\ users' # users => SessioningGetUser(s) = NoId
      /\ \A r \in Slots :
           Steps(r, "createUser", "fanout") =>
             /\ sessions' = sessions
             /\ users' = users
      /\ ({u._id : u \in users'} \ UserIds # {}) =>
           \E r \in Slots : req[r].pc = "idle" /\ req'[r].op = "createUser"
    ]_vars

\* C22 witness: carol has registered through the logged-out session, which
\* is still logged out, and a registration through a bound session was just
\* refused.
C22_Witness ==
  /\ last = Response("createUser", "NotAllowed", NoId)
  /\ AuthingExists(6)
  /\ SessioningGetUser("s3") = NoId
  /\ SessioningGetUser("s1") = 1

====
